---- MODULE Spec2Model ----
(***************************************************************************)
(* Model of generate_hierarchy_tree (src/packing.ipynb, lines 53-107): the *)
(* bottom-up agglomerative construction of the hierarchy tree HT over the  *)
(* qubits of a chip, driven by the pairwise score F.                       *)
(*                                                                         *)
(* The coupling graph is only forwarded to F (line 84) and never read by   *)
(* generate_hierarchy_tree, so the model carries the map                   *)
(* (A, B) |-> F(A, B, coupling_graph) of the fixed coupling graph.  F is   *)
(* a placeholder in the source (lines 42-43, body `pass`); the model runs  *)
(* the builder both with that placeholder and with a supplied pure score   *)
(* function, whose values are drawn when F is first called on a pair and   *)
(* replayed on every later call with the same pair.                        *)
(***************************************************************************)
EXTENDS Integers, Sequences, FiniteSets, TLC

\* ------------------------------------------------------------------ bounds
MaxQubits == 4
\* the largest qubit count of the runs that call the builder twice
MaxQubitsTwice == 3
\* the largest value a supplied score function returns
MaxScore == 0

\* f_max = -1 (line 77)
f_max_init == -1

\* The values of a supplied score function.  The builder only compares
\* scores (line 85); a value at or below f_max_init never passes that test,
\* so f_max_init stands for all of them.
Scores == f_max_init..MaxScore

\* Python's None (lines 78, 90)
None == <<>>

VARIABLES
    qubits,          \* the argument `qubits` (line 53)
    F_pass,          \* TRUE: F is the placeholder of lines 42-43 (returns None)
    F,               \* the values of the supplied F drawn so far: <<A, B>> -> score
    pc,              \* position in generate_hierarchy_tree
    HT,              \* the nx.DiGraph under construction (line 67)
    unmerged_items,  \* line 73
    f_max,           \* line 77
    pair_to_merge,   \* line 78
    i, j,            \* the loop indices of lines 81-82
    calls,           \* the calls F(A, B, ...) made in the current iteration, in order
    merges,          \* the merges performed by the current call, in order
    runs,            \* how many times the builder is called on the same input
    run,             \* the number of the current call
    first            \* the outcome of the first call, once a second one has begun

vars == <<qubits, F_pass, F, pc, HT, unmerged_items, f_max, pair_to_merge, i, j,
          calls, merges, runs, run, first>>

\* ------------------------------------------------------------ sequences
Range(s) == {s[k] : k \in 1..Len(s)}

\* list(range(n))
RangeList(n) == [k \in 1..n |-> k - 1]

\* list.remove(x): drops the first occurrence of x (ValueError when absent,
\* which Merge turns into the raised outcome)
remove(s, x) ==
    IF x \notin Range(s) THEN s
    ELSE LET p == CHOOSE k \in 1..Len(s) : s[k] = x /\ \A m \in 1..(k - 1) : s[m] # x
         IN  [k \in 1..(Len(s) - 1) |-> IF k < p THEN s[k] ELSE s[k + 1]]

\* ------------------------------------------------------------ nx.DiGraph
\* nodes: the node identifiers in insertion order (DiGraph.nodes iterates in
\* that order); attr: each node's attribute dictionary, a set of <<key, value>>;
\* succ: each node's successors in insertion order.
EmptyGraph == [nodes |-> <<>>, attr |-> <<>>, succ |-> <<>>]

has_node(G, n) == n \in Range(G.nodes)

\* DiGraph.add_node(n) without attributes: a new node gets an empty
\* attribute dictionary, an existing node is left as it is
add_node(G, n) ==
    IF has_node(G, n) THEN G
    ELSE [nodes |-> Append(G.nodes, n),
          attr  |-> [m \in Range(G.nodes) \cup {n} |-> IF m = n THEN {} ELSE G.attr[m]],
          succ  |-> [m \in Range(G.nodes) \cup {n} |-> IF m = n THEN <<>> ELSE G.succ[m]]]

\* DiGraph.add_edge(u, v): adds the missing endpoints (u first), then the edge
add_edge(G, u, v) ==
    LET G2 == add_node(add_node(G, u), v)
    IN  IF v \in Range(G2.succ[u]) THEN G2
        ELSE [G2 EXCEPT !.succ[u] = Append(@, v)]

Nodes(G)       == Range(G.nodes)
Children(G, n) == Range(G.succ[n])
Parents(G, n)  == {m \in Nodes(G) : n \in Children(G, m)}
LeafNodes(G)     == {n \in Nodes(G) : Children(G, n) = {}}
InternalNodes(G) == {n \in Nodes(G) : Children(G, n) # {}}
Roots(G)         == {n \in Nodes(G) : Parents(G, n) = {}}


\* ------------------------------------------------------------ the score F
\* F(A, B, coupling_graph) of a supplied score function: a value drawn on the
\* first call with <<A, B>> and the same value on every later call (F is pure).
EmptyMap == [p \in {} |-> 0]

Known(tbl, A, B) == <<A, B>> \in DOMAIN tbl

Record(tbl, A, B, f) == [p \in DOMAIN tbl \cup {<<A, B>>} |->
                            IF p = <<A, B>> THEN f ELSE tbl[p]]

\* The values F may return on <<A, B>>
FValues(tbl, A, B) == IF Known(tbl, A, B) THEN {tbl[<<A, B>>]} ELSE Scores

\* The drawn values that a later call of F can still ask for: while a further
\* call of the builder is to come, all of them; otherwise those of the pairs
\* of items that are still unmerged (only these are passed to F, line 83).
Forget(tbl, items, last) ==
    IF last
    THEN [p \in {q \in DOMAIN tbl : q[1] \in Range(items) /\ q[2] \in Range(items)} |-> tbl[p]]
    ELSE tbl

\* --------------------------------------------------- generate_hierarchy_tree
\* lines 70-71: for node in range(qubits): HT.add_node(node)
RECURSIVE AddLeaves(_, _, _)
AddLeaves(G, node, n) ==
    IF node >= n THEN G ELSE AddLeaves(add_node(G, node), node + 1, n)

\* line 85 with >= for >: a later pair of equal score replaces the earlier
BetterOrEqual(f, fmax) == f >= fmax

\* line 85: if f > f_max
Better(f, fmax) == f > fmax

\* lines 81-82 with the inner loop as range(i, n)
NextIJFromI(a, b, n) == IF b + 1 < n THEN <<a, b + 1>> ELSE <<a + 1, a + 1>>

\* lines 81-82: the index pair after (a, b) in
\* for i in range(n): for j in range(i + 1, n)
NextIJ(a, b, n) == IF b + 1 < n THEN <<a, b + 1>> ELSE <<a + 1, a + 2>>

\* line 96 off by one: the identifier of the node created last
NewNodeLast(G) == Len(G.nodes) - 1

\* line 96: new_node = len(HT.nodes)
NewNode(G) == Len(G.nodes)

\* lines 97-101 with A as both children
AddMergedTwiceA(G, new_node, A, B) ==
    add_node(add_edge(add_edge(G, new_node, A), new_node, A), new_node)

\* lines 97-101
AddMerged(G, new_node, A, B) ==
    add_node(add_edge(add_edge(G, new_node, A), new_node, B), new_node)

\* lines 103-105 without unmerged_items.remove(B)
ReplaceKeepB(items, A, B, new_node) == Append(remove(items, A), new_node)

\* lines 103-105
Replace(items, A, B, new_node) == Append(remove(remove(items, A), B), new_node)

Init ==
    /\ qubits \in 0..MaxQubits
    /\ F_pass \in BOOLEAN
    /\ F = EmptyMap
    /\ pc = "call"
    /\ HT = EmptyGraph
    /\ unmerged_items = <<>>
    /\ f_max = f_max_init
    /\ pair_to_merge = None
    /\ i = 0
    /\ j = 0
    /\ calls = <<>>
    /\ merges = <<>>
    /\ runs = 1
    /\ run = 1
    /\ first = None

\* lines 66-73 with unmerged_items in an unspecified order (as list(set(...)))
BuildAnyOrder ==
    /\ pc = "call"
    /\ HT' = AddLeaves(EmptyGraph, 0, qubits)
    /\ \E perm \in [1..qubits -> 0..(qubits - 1)] :
          /\ \A p, q \in 1..qubits : p # q => perm[p] # perm[q]
          /\ unmerged_items' = perm
    /\ pc' = "while"
    /\ UNCHANGED <<qubits, F_pass, F, f_max, pair_to_merge, i, j, calls, merges,
                   runs, run, first>>

\* lines 66-73: HT = nx.DiGraph(), the leaves, unmerged_items = list(HT.nodes)
Build ==
    /\ pc = "call"
    /\ HT' = AddLeaves(EmptyGraph, 0, qubits)
    /\ unmerged_items' = HT'.nodes
    /\ pc' = "while"
    /\ UNCHANGED <<qubits, F_pass, F, f_max, pair_to_merge, i, j, calls, merges,
                   runs, run, first>>

\* lines 76-78: the loop test holds; f_max = -1, pair_to_merge = None, and
\* the two for loops are entered at i = 0, j = 1
LoopEnter ==
    /\ pc = "while"
    /\ Len(unmerged_items) > 1
    /\ f_max' = f_max_init
    /\ pair_to_merge' = None
    /\ i' = 0
    /\ j' = 1
    /\ calls' = <<>>
    /\ F' = Forget(F, unmerged_items, runs = 1)
    /\ pc' = "for"
    /\ UNCHANGED <<qubits, F_pass, HT, unmerged_items, merges, runs, run, first>>

\* lines 76, 107: the loop test fails; return HT
LoopExit ==
    /\ pc = "while"
    /\ ~(Len(unmerged_items) > 1)
    /\ pc' = "done"
    /\ UNCHANGED <<qubits, F_pass, F, HT, unmerged_items, f_max, pair_to_merge, i, j,
                   calls, merges, runs, run, first>>

\* lines 83-87 with a supplied score function, and the step of the for loops
Score ==
    /\ pc = "for"
    /\ ~F_pass
    /\ LET A == unmerged_items[i + 1]
           B == unmerged_items[j + 1]
           nxt == NextIJ(i, j, Len(unmerged_items))
       IN  /\ \E f \in FValues(F, A, B) :
                /\ F' = Record(F, A, B, f)
                /\ IF Better(f, f_max)
                   THEN f_max' = f /\ pair_to_merge' = <<A, B>>
                   ELSE UNCHANGED <<f_max, pair_to_merge>>
           /\ calls' = Append(calls, <<A, B>>)
           /\ i' = nxt[1]
           /\ j' = nxt[2]
           /\ pc' = IF nxt[2] < Len(unmerged_items) THEN "for" ELSE "if_none"
    /\ UNCHANGED <<qubits, F_pass, HT, unmerged_items, merges, runs, run, first>>

\* lines 83-85 with the placeholder F of lines 42-43: f is None, and
\* None > f_max raises TypeError
ScoreNone ==
    /\ pc = "for"
    /\ F_pass
    /\ calls' = Append(calls, <<unmerged_items[i + 1], unmerged_items[j + 1]>>)
    /\ pc' = "raised"
    /\ UNCHANGED <<qubits, F_pass, F, HT, unmerged_items, f_max, pair_to_merge, i, j,
                   merges, runs, run, first>>

\* lines 90-91, 107: no pair was chosen; break and return HT
Break ==
    /\ pc = "if_none"
    /\ pair_to_merge = None
    /\ pc' = "done"
    /\ UNCHANGED <<qubits, F_pass, F, HT, unmerged_items, f_max, pair_to_merge, i, j,
                   calls, merges, runs, run, first>>

\* lines 93-105: the new node over the chosen pair
Merge ==
    /\ pc = "if_none"
    /\ pair_to_merge # None
    /\ LET A == pair_to_merge[1]
           B == pair_to_merge[2]
           new_node == NewNode(HT)
       IN  /\ HT' = AddMerged(HT, new_node, A, B)
           /\ unmerged_items' = Replace(unmerged_items, A, B, new_node)
           /\ merges' = Append(merges, [node |-> new_node, left |-> A, right |-> B,
                                        score |-> f_max])
           \* list.remove raises ValueError when the item is absent
           /\ pc' = IF A \in Range(unmerged_items) /\ B \in Range(remove(unmerged_items, A))
                    THEN "while" ELSE "raised"
    /\ UNCHANGED <<qubits, F_pass, F, f_max, pair_to_merge, i, j, calls, runs, run, first>>

Next == Build \/ LoopEnter \/ LoopExit \/ Score \/ ScoreNone \/ Break \/ Merge

Spec == Init /\ [][Next]_vars

\* ------------------------------------------- the builder called a second time
InitTwice ==
    /\ qubits \in 0..MaxQubitsTwice
    /\ F_pass \in BOOLEAN
    /\ F = EmptyMap
    /\ pc = "call"
    /\ HT = EmptyGraph
    /\ unmerged_items = <<>>
    /\ f_max = f_max_init
    /\ pair_to_merge = None
    /\ i = 0
    /\ j = 0
    /\ calls = <<>>
    /\ merges = <<>>
    /\ runs = 2
    /\ run = 1
    /\ first = None

\* generate_hierarchy_tree(qubits, coupling_graph) is called again with the
\* same arguments and the same F; the first call's outcome is kept aside
SecondCall ==
    /\ pc \in {"done", "raised"}
    /\ run < runs
    /\ first' = [pc |-> pc, HT |-> HT, merges |-> merges]
    /\ run' = run + 1
    /\ pc' = "call"
    /\ HT' = EmptyGraph
    /\ unmerged_items' = <<>>
    /\ f_max' = f_max_init
    /\ pair_to_merge' = None
    /\ i' = 0
    /\ j' = 0
    /\ calls' = <<>>
    /\ merges' = <<>>
    /\ UNCHANGED <<qubits, F_pass, F, runs>>

NextTwice == Next \/ SecondCall

SpecTwice == InitTwice /\ [][NextTwice]_vars


\* ------------------------------------------------- reading the built graph
\* The nodes reachable from the set S along successor edges, S included
RECURSIVE Closure(_, _, _)
Closure(G, S, k) ==
    LET T == S \cup UNION {Children(G, m) : m \in S}
    IN  IF k = 0 \/ T = S THEN S ELSE Closure(G, T, k - 1)

Under(G, n) == Closure(G, {n}, Len(G.nodes))

\* The qubits under node n: the leaves reachable from it
QubitsUnder(G, n) == {m \in Under(G, n) : Children(G, m) = {}}

Acyclic(G) == \A n \in Nodes(G) : n \notin Closure(G, Children(G, n), Len(G.nodes))

NoDuplicates(s) == \A p, q \in 1..Len(s) : p # q => s[p] # s[q]

\* An unordered pair as (smaller identifier, larger identifier)
Canon(c) == IF c[1] <= c[2] THEN c ELSE <<c[2], c[1]>>

LexLess(p, q) == p[1] < q[1] \/ (p[1] = q[1] /\ p[2] < q[2])

\* The node created last and its (left, right) children, read from HT
LastNode == HT.nodes[Len(HT.nodes)]
LastPair == <<HT.succ[LastNode][1], HT.succ[LastNode][2]>>

\* pc = "while" with a merge behind it: the state right after a merge, where
\* calls and F still hold the iteration that chose the merged pair
JustMerged == pc = "while" /\ merges # <<>>

\* The pairs of the finished iteration that reached the maximum score
TiedPairs ==
    {Canon(calls[k]) : k \in {m \in 1..Len(calls) :
                                \A n \in 1..Len(calls) : F[calls[m]] >= F[calls[n]]}}

\* ------------------------------------------------------------------ claims

\* C1: for N >= 1 qubits and every score function the returned graph has
\* exactly N leaves (one per qubit), exactly N-1 internal nodes with two
\* distinct children each, is acyclic, and is a single rooted tree: one node
\* without a parent, every other node with exactly one parent.
C1_SingleRootedTree ==
    (pc = "done" /\ qubits >= 1) =>
        /\ LeafNodes(HT) = 0..(qubits - 1)
        /\ Cardinality(InternalNodes(HT)) = qubits - 1
        /\ \A n \in InternalNodes(HT) :
              Len(HT.succ[n]) = 2 /\ HT.succ[n][1] # HT.succ[n][2]
        /\ Acyclic(HT)
        /\ Cardinality(Roots(HT)) = 1
        /\ \A n \in Nodes(HT) \ Roots(HT) : Cardinality(Parents(HT, n)) = 1

\* C2: in every iteration in which several unordered pairs of active nodes
\* tie for the maximum score, the pair merged is the tied pair whose
\* (smaller identifier, larger identifier) tuple is lexicographically
\* smallest, also in iterations after earlier merges.
C2_TieBreakLexSmallest ==
    (JustMerged /\ Cardinality(TiedPairs) >= 2) =>
        /\ Canon(LastPair) \in TiedPairs
        /\ \A q \in TiedPairs \ {Canon(LastPair)} : LexLess(Canon(LastPair), q)

\* C2 witness: a second merge was chosen among tied pairs, one of the tied
\* pairs and the merged pair holding a node appended by the first merge.
C2_Witness ==
    /\ JustMerged
    /\ Len(merges) = 2
    /\ Cardinality(TiedPairs) >= 2
    /\ LastPair[2] >= qubits
    /\ Canon(LastPair) \in TiedPairs
    /\ \A q \in TiedPairs \ {Canon(LastPair)} : LexLess(Canon(LastPair), q)

\* C3: the builder stops only when exactly one active node remains, after
\* all N-1 merges, whatever the scores are (also when every pair receives
\* the minimum score).
C3_StopsOnlyAtRoot ==
    (pc = "done" /\ qubits >= 1) =>
        /\ Len(unmerged_items) = 1
        /\ Len(merges) = qubits - 1

\* C4: on zero qubits the builder fails (EmptyTopology) and returns no tree;
\* on one qubit it returns the tree of that single root leaf, with no merge
\* performed and no score evaluated.
C4_EmptyFailsSingleLeaf ==
    /\ (qubits = 0 => pc # "done")
    /\ (qubits = 1 /\ pc = "done") =>
          /\ HT.nodes = <<0>>
          /\ HT.succ[0] = <<>>
          /\ unmerged_items = <<0>>
          /\ merges = <<>>
          /\ calls = <<>>
          /\ F = EmptyMap

\* C5: every internal node of the returned tree stores a score, equal to the
\* winning maximum F(left, right) of the iteration that created it.
C5_ScoreStored ==
    pc = "done" =>
        \A k \in 1..Len(merges) :
            <<"score", merges[k].score>> \in HT.attr[merges[k].node]

C8_ActiveListIsRoots ==
    pc # "call" =>
        /\ NoDuplicates(unmerged_items)
        /\ Range(unmerged_items) = Roots(HT)
        /\ Len(unmerged_items) = qubits - Len(merges)
        /\ Cardinality(InternalNodes(HT)) = Len(merges)
        /\ pc \in {"for", "if_none"} =>
              /\ \A k \in 1..Len(calls) :
                    Parents(HT, calls[k][1]) = {} /\ Parents(HT, calls[k][2]) = {}
              /\ pair_to_merge # None =>
                    /\ pair_to_merge[1] \in Range(unmerged_items)
                    /\ pair_to_merge[2] \in Range(unmerged_items)
                    /\ pair_to_merge[1] # pair_to_merge[2]
        /\ JustMerged =>
              /\ LastNode \in Range(unmerged_items)
              /\ LastPair[1] \notin Range(unmerged_items)
              /\ LastPair[2] \notin Range(unmerged_items)

\* C8 witness: four qubits after two merges, two entries left.
C8_Witness ==
    /\ JustMerged
    /\ qubits = 4
    /\ Len(merges) = 2
    /\ Len(unmerged_items) = 2
    /\ Range(unmerged_items) = Roots(HT)

\* C9: identifiers are unique and in creation order: the leaves are 0..N-1,
\* the k-th merge creates node N+k-1, which is not yet present, every child
\* identifier is smaller than its parent's, and the root of the completed
\* tree is the node created last.
C9_IdentifiersInCreationOrder ==
    pc # "call" =>
        /\ HT.nodes = RangeList(Len(HT.nodes))
        /\ Len(HT.nodes) = qubits + Len(merges)
        /\ \A n \in Nodes(HT) : n < qubits <=> Children(HT, n) = {}
        /\ \A k \in 1..Len(merges) :
              /\ merges[k].node = qubits + k - 1
              /\ HT.succ[merges[k].node] = <<merges[k].left, merges[k].right>>
        /\ \A n \in Nodes(HT) : \A c \in Children(HT, n) : c < n
        /\ (pc = "done" /\ Len(unmerged_items) = 1) =>
              unmerged_items[1] = LastNode

\* C9 witness: the completed tree over four qubits, rooted at node 6.
C9_Witness ==
    /\ pc = "done"
    /\ qubits = 4
    /\ Len(merges) = 3
    /\ unmerged_items = <<6>>
    /\ merges[3].node = 6

\* C10: the qubit sets under the active nodes are pairwise disjoint and
\* cover all N qubits; every call of F is on two nodes with disjoint qubit
\* sets; each internal node's qubit set is the disjoint union of its
\* children's.
C10_DisjointCover ==
    pc # "call" =>
        /\ \A p, q \in 1..Len(unmerged_items) :
              p # q => QubitsUnder(HT, unmerged_items[p])
                         \cap QubitsUnder(HT, unmerged_items[q]) = {}
        /\ UNION {QubitsUnder(HT, unmerged_items[p]) : p \in 1..Len(unmerged_items)}
             = 0..(qubits - 1)
        /\ pc \in {"for", "if_none", "raised"} =>
              \A k \in 1..Len(calls) :
                  QubitsUnder(HT, calls[k][1]) \cap QubitsUnder(HT, calls[k][2]) = {}
        /\ \A n \in InternalNodes(HT) :
              /\ Len(HT.succ[n]) = 2
              /\ QubitsUnder(HT, HT.succ[n][1]) \cap QubitsUnder(HT, HT.succ[n][2]) = {}
              /\ QubitsUnder(HT, n) =
                   QubitsUnder(HT, HT.succ[n][1]) \cup QubitsUnder(HT, HT.succ[n][2])

\* C10 witness: F is being called on a merged node holding two qubits and a
\* node disjoint from it.
C10_Witness ==
    /\ pc = "for"
    /\ Len(merges) >= 1
    /\ \E k \in 1..Len(calls) :
          /\ Cardinality(QubitsUnder(HT, calls[k][2])) >= 2
          /\ QubitsUnder(HT, calls[k][1]) \cap QubitsUnder(HT, calls[k][2]) = {}

====
